---- MODULE Spec2Model ----
(***************************************************************************)
(* A model of xone/utils.py: flatten / _to_gen_, align_data, cat_data and  *)
(* the evaluation grid of spline_curve.  Every function is pure, so the    *)
(* state is one call frame: the function called, its arguments, and the    *)
(* value it returns.                                                       *)
(***************************************************************************)
EXTENDS Integers, Sequences, FiniteSets, TLC

VARIABLES fn, args, ret, pc

vars == <<fn, args, ret, pc>>

(* Bounds of the model. *)
MaxAtom == 2
MaxSize == 4

(***************************************************************************)
(* Python values.  None, atoms tagged with their type, and containers.     *)
(* "int" stands for int and float alike: the code treats them the same.    *)
(* A bytes value is modelled with one byte.                                *)
(***************************************************************************)
None == <<"none">>

StrAtoms == {<<"str", v>> : v \in 1..MaxAtom}

Atoms == StrAtoms \cup {<<"int", 1>>, <<"bytes", 1>>}

Container(elms) == <<"list", elms>>

RECURSIVE Forest(_)
RECURSIVE Tree(_)
(* Sequences of nested values with n nodes in total. *)
Forest(n) ==
  IF n = 0 THEN {<<>>}
  ELSE UNION {{<<t>> \o f : t \in Tree(k), f \in Forest(n - k)} : k \in 1..n}

(* Nested values with exactly k nodes (atoms and containers). *)
Tree(k) ==
  (IF k = 1 THEN Atoms ELSE {}) \cup {Container(f) : f \in Forest(k - 1)}

NestedValues == {None} \cup UNION {Tree(k) : k \in 1..MaxSize}

(* A dict from strings to strings, or None when the argument is omitted. *)
Dict(f) == <<"dict", f>>

MapsValues ==
  {None} \cup {Dict(f) : f \in UNION {[S -> StrAtoms] : S \in SUBSET StrAtoms}}

(* Only strings taken as atomic. *)
IsStrOnly(v) == v[1] = "str"

(* isinstance(v, (str, int, float)) *)
IsStrIntFloat(v) == v[1] \in {"str", "int"}

(* isinstance(v, Iterable) and not isinstance(v, (str, bytes)) *)
IsIterableNotStrBytes(v) == v[1] = "list"

(* The items a for loop over v visits. *)
Iterate(v) ==
  IF v[1] = "list" THEN v[2]
  ELSE IF v[1] = "bytes" THEN <<<<"int", v[2]>>>>
  ELSE <<>>

(* A substitute looked up in the map again. *)
dict_get_twice(maps, item) ==
  LET once == IF item \in DOMAIN maps[2] THEN maps[2][item] ELSE item
  IN  IF once \in DOMAIN maps[2] THEN maps[2][once] ELSE once

(* maps.get(item, item) *)
dict_get(maps, item) ==
  IF item \in DOMAIN maps[2] THEN maps[2][item] ELSE item

(* if maps is None: maps = dict() *)
DefaultMaps(maps) == IF maps = None THEN Dict(<<>>) ELSE maps

RECURSIVE Concat(_)
Concat(seqs) ==
  IF seqs = <<>> THEN <<>> ELSE Head(seqs) \o Concat(Tail(seqs))

RECURSIVE flatten_list(_, _)
RECURSIVE _to_gen_(_)

(* A generator that opens one level of nesting only. *)
to_gen_one_level(iterable) ==
  LET elms == Iterate(iterable)
  IN  Concat([i \in 1..Len(elms) |->
                IF IsIterableNotStrBytes(elms[i])
                THEN Iterate(elms[i])
                ELSE <<elms[i]>>])

(* _to_gen_: the items the generator yields, in order. *)
_to_gen_(iterable) ==
  LET elms == Iterate(iterable)
  IN  Concat([i \in 1..Len(elms) |->
                IF IsIterableNotStrBytes(elms[i])
                THEN flatten_list(elms[i], None)
                ELSE <<elms[i]>>])

(* flatten with unique=False: the list it returns. *)
flatten_list(iterable, maps) ==
  IF iterable = None THEN <<>>
  ELSE IF IsStrIntFloat(iterable)
       THEN <<dict_get(DefaultMaps(maps), iterable)>>
       ELSE LET gen == _to_gen_(iterable)
            IN  [i \in 1..Len(gen) |-> dict_get(DefaultMaps(maps), gen[i])]

Range(s) == {s[i] : i \in 1..Len(s)}

RECURSIVE Orders(_)
(* Every order in which a set can be listed. *)
Orders(S) ==
  IF S = {} THEN {<<>>}
  ELSE UNION {{<<e>> \o o : o \in Orders(S \ {e})} : e \in S}

(* The list returned as it is, repeats included. *)
list_keep(x) == {x}

(* list(set(x)): the order of a set's elements is not specified. *)
list_set(x) == Orders(Range(x))

(* flatten: the values a call may return. *)
flatten(iterable, maps, unique) ==
  IF iterable = None \/ IsStrIntFloat(iterable)
  THEN {flatten_list(iterable, maps)}
  ELSE IF unique THEN list_set(flatten_list(iterable, maps))
       ELSE {flatten_list(iterable, maps)}

InitFlatten ==
  /\ fn = "flatten"
  /\ args \in [iterable : NestedValues, maps : MapsValues, unique : BOOLEAN]
  /\ ret = None
  /\ pc = "call"

CallFlatten ==
  /\ pc = "call"
  /\ fn = "flatten"
  /\ \E r \in flatten(args.iterable, args.maps, args.unique) : ret' = r
  /\ pc' = "done"
  /\ UNCHANGED <<fn, args>>

SpecFlatten == InitFlatten /\ [][CallFlatten]_vars

(***************************************************************************)
(* Time-indexed tables.  A table has a list of column names and a list of  *)
(* rows; a row has its timestamp (index) and one cell per column.  A cell  *)
(* is NaN or holds a value.  A column name is a sequence of characters.    *)
(***************************************************************************)
MaxTime == 2
MaxRows == 2
MaxTables == 3
MaxNameLen == 2
MaxPosition == 11

NaN == <<>>

Cell(v) == <<v>>

Cells1 == {NaN, Cell(1)}

Cells2 == {NaN, Cell(1), Cell(2)}

(* Rows of a table come in chronological order; timestamps may repeat. *)
Chronological(rows) ==
  \A k \in 1..(Len(rows) - 1) : rows[k].index <= rows[k + 1].index

RowLists(ncols, cells) ==
  UNION {{rows \in [1..k -> [index : 1..MaxTime, values : [1..ncols -> cells]]] :
            Chronological(rows)} : k \in 0..MaxRows}

Tables(cols, cells) ==
  {[columns |-> cols, rows |-> rows] : rows \in RowLists(Len(cols), cells)}

Tables1 ==
  Tables(<<>>, Cells1) \cup Tables(<<<<"p">>>>, Cells1)
    \cup Tables(<<<<"p">>, <<"v">>>>, Cells1)

Tables2 == Tables(<<<<"v">>>>, Cells2)

(* The argument lists: no table, one table, or a first table followed by   *)
(* m copies of a second one.                                               *)
ArgList(t1, t2, m) == <<t1>> \o [k \in 1..m |-> t2]

Digit == <<"0", "1", "2", "3", "4", "5", "6", "7", "8", "9">>

RECURSIVE Decimal(_)
(* '%d' % n for n >= 0 *)
Decimal(n) ==
  IF n < 10 THEN <<Digit[n + 1]>>
  ELSE Decimal(n \div 10) \o <<Digit[(n % 10) + 1]>>

(* The suffix numbered from zero, as enumerate counts. *)
rename_from_zero(vv, i) == vv \o <<"_">> \o Decimal(i)

(* '%s_%d' % (vv, i + 1), i the position enumerate gives *)
rename(vv, i) == vv \o <<"_">> \o Decimal(i + 1)

(* col[-2:] *)
LastTwo(col) ==
  IF Len(col) <= 2 THEN col ELSE SubSeq(col, Len(col) - 1, Len(col))

(* col[-2:] == '_1' *)
IsDataCol(col) == LastTwo(col) = <<"_", "1">>

(* A duplicated timestamp keeps its last row. *)
keep_last(d) ==
  [columns |-> d.columns,
   rows |-> SelectSeq(
      [k \in 1..Len(d.rows) |->
         [index |-> d.rows[k].index, values |-> d.rows[k].values,
          keep |-> \A j \in (k + 1)..Len(d.rows) :
                      d.rows[j].index # d.rows[k].index]],
      LAMBDA r : r.keep)]

(* d.loc[~d.index.duplicated(keep='first')] *)
keep_first(d) ==
  [columns |-> d.columns,
   rows |-> SelectSeq(
      [k \in 1..Len(d.rows) |->
         [index |-> d.rows[k].index, values |-> d.rows[k].values,
          keep |-> \A j \in 1..(k - 1) :
                      d.rows[j].index # d.rows[k].index]],
      LAMBDA r : r.keep)]

(* .rename(columns=lambda vv: ...) of the table at position i *)
rename_columns(d, i) ==
  [columns |-> [c \in 1..Len(d.columns) |-> rename(d.columns[c], i)],
   rows |-> d.rows]

Index(d) == {d.rows[k].index : k \in 1..Len(d.rows)}

RECURSIVE SortedList(_)
SortedList(S) ==
  IF S = {} THEN <<>>
  ELSE LET lo == CHOOSE x \in S : \A y \in S : x <= y
       IN  <<lo>> \o SortedList(S \ {lo})

(* The cells of table d at timestamp ts: its row there, or all NaN. *)
RowAt(d, ts) ==
  IF ts \in Index(d)
  THEN LET k == CHOOSE k \in 1..Len(d.rows) : d.rows[k].index = ts
       IN  d.rows[k].values
  ELSE [c \in 1..Len(d.columns) |-> NaN]

(* pd.concat(frames, axis=1): the columns side by side, the rows of the    *)
(* union of the indexes in chronological order.                            *)
concat(frames) ==
  LET idx == SortedList(UNION {Index(frames[i]) : i \in 1..Len(frames)})
  IN  [columns |-> Concat([i \in 1..Len(frames) |-> frames[i].columns]),
       rows |-> [k \in 1..Len(idx) |->
                   [index |-> idx[k],
                    values |-> Concat([i \in 1..Len(frames) |->
                                         RowAt(frames[i], idx[k])])]]]

(* Every column taken as one to fill. *)
all_cols(res) == 1..Len(res.columns)

(* data_cols / other_cols, as column positions *)
data_cols(res) == {c \in 1..Len(res.columns) : IsDataCol(res.columns[c])}

other_cols(res) == {c \in 1..Len(res.columns) : ~IsDataCol(res.columns[c])}

RECURSIVE pad(_)
(* fillna(method='pad') of one column *)
pad(col) ==
  IF Len(col) <= 1 THEN col
  ELSE LET init == pad(SubSeq(col, 1, Len(col) - 1))
           last == col[Len(col)]
       IN  Append(init, IF last = NaN THEN init[Len(init)] ELSE last)

(* res.loc[:, cols] = res.loc[:, cols].fillna(method='pad') *)
fillna_pad(res, cols) ==
  LET filled(c) == pad([k \in 1..Len(res.rows) |-> res.rows[k].values[c]])
  IN  [columns |-> res.columns,
       rows |-> [k \in 1..Len(res.rows) |->
                   [index |-> res.rows[k].index,
                    values |-> [c \in 1..Len(res.columns) |->
                                  IF c \in cols THEN filled(c)[k]
                                  ELSE res.rows[k].values[c]]]]]

(* Rows dropped only when every column of the subset is missing. *)
dropna_all(res, subset) ==
  [columns |-> res.columns,
   rows |-> SelectSeq(res.rows,
      LAMBDA r : subset = {} \/ \E c \in subset : r.values[c] # NaN)]

(* res.dropna(subset=cols) *)
dropna(res, subset) ==
  [columns |-> res.columns,
   rows |-> SelectSeq(res.rows, LAMBDA r : \A c \in subset : r.values[c] # NaN)]

(* The table pd.concat builds at lines 159-163. *)
Merged(tables) ==
  concat([i \in 1..Len(tables) |->
            rename_columns(keep_first(tables[i]), i - 1)])

ValueError == [raise |-> "ValueError"]

align_data(tables) ==
  IF Len(tables) = 0 THEN ValueError
  ELSE LET res == Merged(tables)
           filled == fillna_pad(res, other_cols(res))
       IN  dropna(filled, data_cols(filled))

Chars == {"p", "_", "1"}

Names == UNION {[1..k -> Chars] : k \in 0..MaxNameLen}

InitAlign ==
  \/ /\ fn = "align_data"
     /\ \/ args = <<>>
        \/ \E t1 \in Tables1 : args = <<t1>>
        \/ \E t1 \in Tables1 : \E t2 \in Tables2 :
              \E m \in 1..(MaxTables - 1) : args = ArgList(t1, t2, m)
     /\ ret = None
     /\ pc = "call"
  \/ /\ fn = "rename"
     /\ args \in [vv : Names, i : 0..MaxPosition]
     /\ ret = None
     /\ pc = "call"

CallAlignData ==
  /\ pc = "call"
  /\ fn = "align_data"
  /\ ret' = align_data(args)
  /\ pc' = "done"
  /\ UNCHANGED <<fn, args>>

(* Lines 161 and 164-165 on one column of the table at position args.i. *)
CallRename ==
  /\ pc = "call"
  /\ fn = "rename"
  /\ ret' = [name |-> rename(args.vv, args.i),
             data_col |-> IsDataCol(rename(args.vv, args.i))]
  /\ pc' = "done"
  /\ UNCHANGED <<fn, args>>

NextAlign == CallAlignData \/ CallRename

SpecAlign == InitAlign /\ [][NextAlign]_vars

(***************************************************************************)
(* cat_data.  data_kw is a dict, modelled by its items in insertion order; *)
(* column names are strings here, and the columns of the result are pairs  *)
(* (ticker, column).                                                       *)
(***************************************************************************)
Tickers == {"A", "B"}

(* The tables of a mapping have at least one row. *)
CatTables ==
  {t \in Tables(<<"price">>, Cells1) \cup Tables(<<"ticker">>, Cells1)
            \cup Tables(<<"price", "ticker">>, Cells1) : Len(t.rows) >= 1}

EmptyFrame == [columns |-> <<>>, rows |-> <<>>]

(* data.assign(ticker=ticker): the column is overwritten when the table    *)
(* has one of that name, and added after the others when it has none.      *)
assign(data, name, value) ==
  IF name \in Range(data.columns)
  THEN [columns |-> data.columns,
        rows |-> [k \in 1..Len(data.rows) |->
                    [index |-> data.rows[k].index,
                     values |-> [c \in 1..Len(data.columns) |->
                                   IF data.columns[c] = name THEN Cell(value)
                                   ELSE data.rows[k].values[c]]]]]
  ELSE [columns |-> Append(data.columns, name),
        rows |-> [k \in 1..Len(data.rows) |->
                    [index |-> data.rows[k].index,
                     values |-> Append(data.rows[k].values, Cell(value))]]]

Without(s, c) == [j \in 1..(Len(s) - 1) |-> IF j < c THEN s[j] ELSE s[j + 1]]

(* .set_index(name, append=True): the column leaves the columns and        *)
(* becomes a second level of the row index.                                *)
set_index_append(data, name) ==
  LET c == CHOOSE c \in 1..Len(data.columns) : data.columns[c] = name
  IN  [columns |-> Without(data.columns, c),
       rows |-> [k \in 1..Len(data.rows) |->
                   [index |-> data.rows[k].index,
                    level |-> data.rows[k].values[c][1],
                    values |-> Without(data.rows[k].values, c)]]]

(* .unstack(level): one column (column, level value) for every column and  *)
(* every value the level takes in the index, one row per timestamp; it     *)
(* raises ValueError when the index has duplicate entries.                 *)
unstack(data) ==
  LET n == Len(data.rows)
      levels == {data.rows[k].level : k \in 1..n}
      lv == CHOOSE l \in [1..Cardinality(levels) -> levels] :
              \A a, b \in DOMAIN l : a # b => l[a] # l[b]
      idx == SortedList({data.rows[k].index : k \in 1..n})
      cell(ts, c, l) ==
        IF \E k \in 1..n : data.rows[k].index = ts /\ data.rows[k].level = l
        THEN LET k == CHOOSE k \in 1..n :
                        data.rows[k].index = ts /\ data.rows[k].level = l
             IN  data.rows[k].values[c]
        ELSE NaN
  IN  IF \E j, k \in 1..n : /\ j # k
                            /\ data.rows[j].index = data.rows[k].index
                            /\ data.rows[j].level = data.rows[k].level
      THEN ValueError
      ELSE [columns |-> Concat([c \in 1..Len(data.columns) |->
                                  [l \in 1..Len(lv) |->
                                     <<data.columns[c], lv[l]>>]]),
            rows |-> [k \in 1..Len(idx) |->
                        [index |-> idx[k],
                         values |-> Concat([c \in 1..Len(data.columns) |->
                                              [l \in 1..Len(lv) |->
                                                 cell(idx[k], c, lv[l])]])]]]

(* .swaplevel(0, 1, axis=1) *)
swaplevel(data) ==
  [columns |-> [c \in 1..Len(data.columns) |->
                  <<data.columns[c][2], data.columns[c][1]>>],
   rows |-> data.rows]

Raises(v) == "raise" \in DOMAIN v

(* One element of the list comprehension of lines 206-208. *)
Unstacked(ticker, data) ==
  LET u == unstack(set_index_append(assign(data, "ticker", ticker), "ticker"))
  IN  IF Raises(u) THEN u ELSE swaplevel(u)

cat_data(data_kw) ==
  IF Len(data_kw) = 0 THEN EmptyFrame
  ELSE LET frames == [i \in 1..Len(data_kw) |->
                        Unstacked(data_kw[i][1], data_kw[i][2])]
       IN  IF \E i \in 1..Len(frames) : Raises(frames[i]) THEN ValueError
           ELSE concat(frames)

InitCat ==
  /\ fn = "cat_data"
  /\ \/ args = <<>>
     \/ \E k \in Tickers : \E t \in CatTables : args = <<<<k, t>>>>
     \/ \E k1 \in Tickers : \E k2 \in Tickers \ {k1} :
          \E t1 \in CatTables : \E t2 \in CatTables :
            args = <<<<k1, t1>>, <<k2, t2>>>>
  /\ ret = None
  /\ pc = "call"

CallCatData ==
  /\ pc = "call"
  /\ fn = "cat_data"
  /\ ret' = cat_data(args)
  /\ pc' = "done"
  /\ UNCHANGED <<fn, args>>

SpecCat == InitCat /\ [][CallCatData]_vars

(***************************************************************************)
(* spline_curve: the evaluation points.  Numbers are exact and counted in  *)
(* halves of a unit, so that step / 2 is a whole number of them.           *)
(***************************************************************************)
MaxX == 5
MaxLenX == 2
MaxStep == 4

Halves(v) == 2 * v

SeqMin(x) == CHOOSE a \in Range(x) : \A b \in Range(x) : a <= b

SeqMax(x) == CHOOSE a \in Range(x) : \A b \in Range(x) : b <= a

(* np.arange(start, stop, step): ceil((stop - start) / step) points. *)
arange(start, stop, step) ==
  LET n == IF stop <= start THEN 0 ELSE (stop - start + step - 1) \div step
  IN  [k \in 1..n |-> start + (k - 1) * step]

(* The grid stopped at x.max() itself. *)
new_x_to_max(x, step) ==
  arange(Halves(SeqMin(x)), Halves(SeqMax(x)), Halves(step))

(* new_x = np.arange(x.min(), x.max() + step / 2., step=step) *)
new_x(x, step) ==
  arange(Halves(SeqMin(x)), Halves(SeqMax(x)) + step, Halves(step))

InitSpline ==
  /\ fn = "spline_curve"
  /\ \E n \in 1..MaxLenX :
       args \in [x : [1..n -> 0..MaxX], step : 1..MaxStep]
  /\ ret = None
  /\ pc = "call"

(* The index of the series spline_curve returns. *)
CallSplineCurve ==
  /\ pc = "call"
  /\ fn = "spline_curve"
  /\ ret' = new_x(args.x, args.step)
  /\ pc' = "done"
  /\ UNCHANGED <<fn, args>>

SpecSpline == InitSpline /\ [][CallSplineCurve]_vars

(***************************************************************************)
(* Reference notions the flatten claims are stated with.                   *)
(***************************************************************************)
RECURSIVE Leaves(_)
(* The leaf atoms of a nested value, left to right, depth first. *)
Leaves(v) ==
  IF v[1] = "list"
  THEN Concat([i \in 1..Len(v[2]) |-> Leaves(v[2][i])])
  ELSE <<v>>

(* One substitution of a leaf: the map's value for it, or the leaf itself. *)
SubstOnce(maps, a) ==
  IF maps # None /\ a \in DOMAIN maps[2] THEN maps[2][a] ELSE a

FlattenDone == pc = "done" /\ fn = "flatten"

(* C3: flatten of a container with unique=False returns the leaf atoms in  *)
(* left-to-right depth-first order at any depth, each substituted through  *)
(* the map exactly once, containers never substituted, strings and bytes   *)
(* elements kept whole.                                                    *)
C3_FlattenLeavesInOrder ==
  (FlattenDone /\ args.iterable[1] = "list" /\ ~args.unique) =>
     LET lv == Leaves(args.iterable)
     IN  /\ Len(ret) = Len(lv)
         /\ \A i \in 1..Len(lv) :
              /\ ret[i] = SubstOnce(args.maps, lv[i])
              /\ ret[i] \in Atoms

(* A leaf two containers deep whose substitute is itself a key of the map, *)
(* next to a bytes element.                                                *)
C3_Witness ==
  /\ FlattenDone
  /\ ~args.unique
  /\ args.iterable =
       Container(<<<<"bytes", 1>>, Container(<<<<"str", 1>>>>)>>)
  /\ args.maps # None
  /\ DOMAIN args.maps[2] = StrAtoms
  /\ args.maps[2][<<"str", 1>>] = <<"str", 2>>
  /\ args.maps[2][<<"str", 2>>] = <<"str", 1>>
  /\ ret = <<<<"bytes", 1>>, <<"str", 2>>>>

NoRepeats(s) == \A i, j \in 1..Len(s) : s[i] = s[j] => i = j

(* C6: flatten of a container with unique=True returns a sequence without  *)
(* repeats whose elements are those of the unique=False result, the        *)
(* de-duplication being on the substituted values.                         *)
C6_UniqueNoRepeats ==
  (FlattenDone /\ args.iterable[1] = "list" /\ args.unique) =>
     /\ NoRepeats(ret)
     /\ Range(ret) = Range(flatten_list(args.iterable, args.maps))
     /\ Range(ret) =
          {SubstOnce(args.maps, a) : a \in Range(Leaves(args.iterable))}

(* Two different leaves that the map sends to one value. *)
C6_Witness ==
  /\ FlattenDone
  /\ args.unique
  /\ args.iterable = Container(<<<<"str", 1>>, <<"str", 2>>, <<"str", 2>>>>)
  /\ args.maps # None
  /\ DOMAIN args.maps[2] = {<<"str", 1>>}
  /\ args.maps[2][<<"str", 1>>] = <<"str", 2>>
  /\ ret = <<<<"str", 2>>>>

(* C7: flatten of a string or number v returns [maps.get(v, v)] whatever   *)
(* unique is, [v] when maps is omitted; flatten(None) and flatten of an    *)
(* empty container return the empty sequence.                              *)
C7_AtomicSingleton ==
  FlattenDone =>
     /\ args.iterable[1] \in {"str", "int"} =>
          /\ Len(ret) = 1
          /\ ret[1] = IF args.maps = None THEN args.iterable
                      ELSE IF args.iterable \in DOMAIN args.maps[2]
                           THEN args.maps[2][args.iterable]
                           ELSE args.iterable
     /\ args.iterable = None => ret = <<>>
     /\ args.iterable = Container(<<>>) => ret = <<>>

(* A mapped string flattened with unique=True. *)
C7_Witness ==
  /\ FlattenDone
  /\ args.unique
  /\ args.iterable = <<"str", 1>>
  /\ args.maps # None
  /\ <<"str", 1>> \in DOMAIN args.maps[2]
  /\ args.maps[2][<<"str", 1>>] = <<"str", 2>>
  /\ ret = <<<<"str", 2>>>>

IsFlat(v) == v[1] = "list" /\ \A i \in 1..Len(v[2]) : v[2][i] \in Atoms

(* C8: without a map and with unique=False, flattening the result of       *)
(* flatten again gives the same result, at any nesting depth, and flatten  *)
(* of a flat sequence of atoms is that sequence.                           *)
C8_FlattenIdempotent ==
  (FlattenDone /\ args.maps = None /\ ~args.unique) =>
     /\ flatten(Container(ret), None, FALSE) = {ret}
     /\ IsFlat(args.iterable) => ret = args.iterable[2]

(* A value three containers deep. *)
C8_Witness ==
  /\ FlattenDone
  /\ args.maps = None
  /\ ~args.unique
  /\ args.iterable = Container(<<Container(<<Container(<<<<"str", 1>>>>)>>)>>)
  /\ ret = <<<<"str", 1>>>>

(***************************************************************************)
(* Reference notions the align_data claims are stated with, read off the   *)
(* argument tables alone.                                                  *)
(***************************************************************************)
AlignDone == pc = "done" /\ fn = "align_data" /\ Len(args) > 0

AllTimes(tables) == UNION {Index(tables[i]) : i \in 1..Len(tables)}

(* The value table d shows at timestamp ts in column c: that of the first  *)
(* of its rows with that timestamp, NaN when it has no such row.           *)
Obs(d, c, ts) ==
  IF ts \in Index(d)
  THEN LET k == CHOOSE k \in 1..Len(d.rows) :
                   /\ d.rows[k].index = ts
                   /\ \A j \in 1..(k - 1) : d.rows[j].index # ts
       IN  d.rows[k].values[c]
  ELSE NaN

(* The last value column c of table d shows at or before ts, or NaN. *)
LastObs(d, c, ts) ==
  LET seen == {t \in Index(d) : t <= ts /\ Obs(d, c, t) # NaN}
  IN  IF seen = {} THEN NaN
      ELSE Obs(d, c, CHOOSE t \in seen : \A u \in seen : u <= t)

RECURSIVE Offset(_, _)
(* The number of result columns that come before those of table i. *)
Offset(tables, i) ==
  IF i = 1 THEN 0 ELSE Offset(tables, i - 1) + Len(tables[i - 1].columns)

RetTimes == {ret.rows[k].index : k \in 1..Len(ret.rows)}

(* The cell of the result at timestamp ts for column c of table i. *)
RetCell(i, c, ts) ==
  LET k == CHOOSE k \in 1..Len(ret.rows) : ret.rows[k].index = ts
  IN  ret.rows[k].values[Offset(args, i) + c]

EndsWith(col, tail) ==
  /\ Len(col) >= Len(tail)
  /\ SubSeq(col, Len(col) - Len(tail) + 1, Len(col)) = tail

(* C1: the rows of the result are the timestamps of the union of the       *)
(* indexes at which every column of the first table has a value; no row    *)
(* of the result has a missing '_1' cell; a timestamp only the other       *)
(* tables have is absent when the first table has a column; and a renamed  *)
(* column counts as primary only at position 1, whatever the position.     *)
C1_RowsOfFirstTable ==
  /\ AlignDone =>
       /\ RetTimes =
            {ts \in AllTimes(args) :
               \A c \in 1..Len(args[1].columns) : Obs(args[1], c, ts) # NaN}
       /\ \A k \in 1..Len(ret.rows) : \A c \in 1..Len(ret.columns) :
            EndsWith(ret.columns[c], <<"_", "1">>) =>
              ret.rows[k].values[c] # NaN
       /\ Len(args[1].columns) >= 1 => RetTimes \subseteq Index(args[1])
       /\ Len(ret.rows) = Cardinality(RetTimes)
  /\ (pc = "done" /\ fn = "rename") => (ret.data_col <=> args.i = 0)

(* A row of the first table with no missing cell and one with a missing   *)
(* cell where the second table has a value.                                *)
C1_Witness ==
  /\ AlignDone
  /\ Len(args) = 2
  /\ args[1].columns = <<<<"p">>, <<"v">>>>
  /\ args[1].rows = <<[index |-> 1, values |-> <<Cell(1), Cell(1)>>],
                      [index |-> 2, values |-> <<Cell(1), NaN>>]>>
  /\ args[2].rows = <<[index |-> 1, values |-> <<NaN>>],
                      [index |-> 2, values |-> <<Cell(2)>>]>>
  /\ RetTimes = {1}

(* C2: in the result every cell of a column of tables 2..N holds the last  *)
(* value that column shows at or before the row's timestamp in the merged  *)
(* table, rows dropped later included, and is missing when there is none;  *)
(* every cell of a column of the first table holds what the first table    *)
(* shows at that timestamp: it is never filled.                            *)
C2_ForwardFillSecondary ==
  AlignDone =>
    \A ts \in RetTimes :
      /\ \A i \in 2..Len(args) : \A c \in 1..Len(args[i].columns) :
           RetCell(i, c, ts) = LastObs(args[i], c, ts)
      /\ \A c \in 1..Len(args[1].columns) :
           RetCell(1, c, ts) = Obs(args[1], c, ts)
      /\ \A c \in 1..Len(ret.columns) :
           EndsWith(ret.columns[c], <<"_", "1">>) => c <= Len(args[1].columns)

(* The second table shows 2 at a timestamp where the first table has a    *)
(* missing cell, and nothing after it; the result carries the 2 forward    *)
(* from the dropped row.                                                   *)
C2_Witness ==
  /\ AlignDone
  /\ Len(args) = 2
  /\ args[1].columns = <<<<"p">>>>
  /\ args[1].rows = <<[index |-> 1, values |-> <<NaN>>],
                      [index |-> 2, values |-> <<Cell(1)>>]>>
  /\ args[2].rows = <<[index |-> 1, values |-> <<Cell(2)>>]>>
  /\ ret.rows = <<[index |-> 2, values |-> <<Cell(1), Cell(2)>>]>>

SameIndex(d1, d2) ==
  /\ Len(d1.rows) = Len(d2.rows)
  /\ \A k \in 1..Len(d1.rows) : d1.rows[k].index = d2.rows[k].index

Disjoint(d1, d2) == Range(d1.columns) \cap Range(d2.columns) = {}

C5_Case ==
  /\ AlignDone
  /\ Len(args) = 2
  /\ SameIndex(args[1], args[2])
  /\ Disjoint(args[1], args[2])

C5_Renamed ==
  ret.columns =
    [c \in 1..Len(args[1].columns) |-> args[1].columns[c] \o <<"_", "1">>]
      \o [c \in 1..Len(args[2].columns) |-> args[2].columns[c] \o <<"_", "2">>]

(* C5 as stated: two tables with an identical index and disjoint column    *)
(* names give as many rows as the shared index has, the columns renamed    *)
(* col_1 and col_2.                                                        *)
C5_Original ==
  C5_Case => (Len(ret.rows) = Len(args[1].rows) /\ C5_Renamed)

(* C5 amended: two tables with an identical index and disjoint column      *)
(* names give one row for each distinct timestamp of the shared index at   *)
(* which the first table's first row has no missing value, the columns     *)
(* renamed col_1 and col_2; the row count is the index length when the     *)
(* index has no repeated timestamp and the first table no missing value.   *)
C5_RowsAndNames ==
  C5_Case =>
    /\ C5_Renamed
    /\ Len(ret.rows) =
         Cardinality({ts \in Index(args[1]) :
            \A c \in 1..Len(args[1].columns) : Obs(args[1], c, ts) # NaN})
    /\ (/\ Cardinality(Index(args[1])) = Len(args[1].rows)
        /\ \A k \in 1..Len(args[1].rows) : \A c \in 1..Len(args[1].columns) :
             args[1].rows[k].values[c] # NaN)
         => Len(ret.rows) = Len(args[1].rows)

(* A shared index of two rows with one timestamp: one row comes out. *)
C5_Witness ==
  /\ C5_Case
  /\ args[1].columns = <<<<"p">>>>
  /\ args[1].rows = <<[index |-> 1, values |-> <<Cell(1)>>],
                      [index |-> 1, values |-> <<Cell(1)>>]>>
  /\ args[2].rows = <<[index |-> 1, values |-> <<Cell(1)>>],
                      [index |-> 1, values |-> <<Cell(2)>>]>>
  /\ ret.columns = <<<<"p", "_", "1">>, <<"v", "_", "2">>>>
  /\ ret.rows = <<[index |-> 1, values |-> <<Cell(1), Cell(1)>>]>>

(* C9: the result has at most one row for a timestamp, and where a table   *)
(* has several rows with one timestamp the result and the merged table     *)
(* before the fill show the first of them: the merged cell is the first    *)
(* row's, and so is the result's unless that cell is missing in a column   *)
(* that is filled.                                                         *)
C9_FirstDuplicateKept ==
  AlignDone =>
    /\ \A j, k \in 1..Len(ret.rows) :
         ret.rows[j].index = ret.rows[k].index => j = k
    /\ LET m == Merged(args)
       IN  /\ \A j, k \in 1..Len(m.rows) :
                m.rows[j].index = m.rows[k].index => j = k
           /\ \A k \in 1..Len(m.rows) : \A i \in 1..Len(args) :
                \A c \in 1..Len(args[i].columns) :
                  m.rows[k].values[Offset(args, i) + c] =
                    Obs(args[i], c, m.rows[k].index)
    /\ \A ts \in RetTimes : \A i \in 1..Len(args) :
         \A c \in 1..Len(args[i].columns) :
           (i = 1 \/ Obs(args[i], c, ts) # NaN) =>
              RetCell(i, c, ts) = Obs(args[i], c, ts)

(* Both tables repeat a timestamp with different values. *)
C9_Witness ==
  /\ AlignDone
  /\ Len(args) = 2
  /\ args[1].columns = <<<<"p">>>>
  /\ args[1].rows = <<[index |-> 1, values |-> <<Cell(1)>>],
                      [index |-> 1, values |-> <<NaN>>]>>
  /\ args[2].rows = <<[index |-> 1, values |-> <<Cell(2)>>],
                      [index |-> 1, values |-> <<Cell(1)>>]>>
  /\ ret.rows = <<[index |-> 1, values |-> <<Cell(1), Cell(2)>>]>>

(***************************************************************************)
(* cat_data and spline_curve claims.                                       *)
(***************************************************************************)
CatDone == pc = "done" /\ fn = "cat_data"

CatTable(key) ==
  LET i == CHOOSE i \in 1..Len(args) : args[i][1] = key
  IN  args[i][2]

CatKeys == {args[i][1] : i \in 1..Len(args)}

(* C4: for a non-empty mapping the result has exactly one column (key,     *)
(* col) for every key and every column col of the key's table, its rows    *)
(* are the union of the tables' row indexes, every cell holds the table's  *)
(* value or is missing when the table has no such row, nothing is filled   *)
(* and no row dropped; for the empty mapping the result is the empty       *)
(* table.                                                                  *)
C4_Original ==
  CatDone =>
    /\ Len(args) = 0 => ret = EmptyFrame
    /\ Len(args) > 0 =>
         /\ ~Raises(ret)
         /\ Range(ret.columns) =
              UNION {{<<key, col>> : col \in Range(CatTable(key).columns)} :
                       key \in CatKeys}
         /\ \A a, b \in 1..Len(ret.columns) :
              ret.columns[a] = ret.columns[b] => a = b
         /\ RetTimes = UNION {Index(CatTable(key)) : key \in CatKeys}
         /\ Len(ret.rows) = Cardinality(RetTimes)
         /\ \A k \in 1..Len(ret.rows) : \A a \in 1..Len(ret.columns) :
              \E c \in 1..Len(CatTable(ret.columns[a][1]).columns) :
                /\ CatTable(ret.columns[a][1]).columns[c] = ret.columns[a][2]
                /\ ret.rows[k].values[a] =
                     Obs(CatTable(ret.columns[a][1]), c, ret.rows[k].index)

SplineDone == pc = "done" /\ fn = "spline_curve"

OnGrid ==
  /\ \A k \in 1..Len(ret) :
       ret[k] = Halves(SeqMin(args.x) + (k - 1) * args.step)
  /\ Len(ret) >= 1
  /\ ret[1] = Halves(SeqMin(args.x))

(* C10 as stated: the evaluation points are x.min() + k * step, start at   *)
(* x.min(), none is greater than x.max(), and x.max() is one of them,      *)
(* whether or not x.max() - x.min() is a whole multiple of step.           *)
C10_Original ==
  SplineDone =>
    /\ OnGrid
    /\ \A k \in 1..Len(ret) : ret[k] <= Halves(SeqMax(args.x))
    /\ Halves(SeqMax(args.x)) \in Range(ret)

(* C10 amended: the evaluation points are x.min() + k * step for the k     *)
(* that keep them below x.max() + step / 2, starting at x.min(); the last  *)
(* is within step / 2 of x.max(); x.max() is an evaluation point, and no   *)
(* point is greater, exactly when x.max() - x.min() is a whole multiple    *)
(* of step, and a point is greater than x.max() exactly when the           *)
(* remainder is more than step / 2.                                        *)
C10_GridWithinHalfStep ==
  SplineDone =>
    LET lo == SeqMin(args.x)
        hi == SeqMax(args.x)
        r == (hi - lo) % args.step
    IN  /\ OnGrid
        /\ \A k \in 1..Len(ret) : ret[k] < Halves(hi) + args.step
        /\ ret[Len(ret)] >= Halves(hi) - args.step
        /\ Halves(hi) \in Range(ret) <=> r = 0
        /\ (\E k \in 1..Len(ret) : ret[k] > Halves(hi)) <=> Halves(r) > args.step

(* x.max() - x.min() = 5 and step 3: the points 0, 3, 6. *)
C10_Witness ==
  /\ SplineDone
  /\ args.x = <<0, 5>>
  /\ args.step = 3
  /\ ret = <<Halves(0), Halves(3), Halves(6)>>

====
